---- MODULE Spec2Model ----
(***************************************************************************)
(* Power sequencing of the Apple Thunderbolt host controller.              *)
(*                                                                         *)
(* The tree holds two implementations of the same callback set:            *)
(*   drivers/thunderbolt/power.c    (PM domain on the upstream bridge)     *)
(*   drivers/thunderbolt/upstream.c (PCIe port service driver)             *)
(* Both define upstream_prepare, upstream_complete,                        *)
(* upstream_runtime_suspend and upstream_runtime_resume.  A definition     *)
(* modelling power.c carries the prefix P_, one modelling upstream.c the   *)
(* prefix U_; the variable "variant" says which driver is bound.           *)
(*                                                                         *)
(* A callback is a sequence of steps, one per call it makes into ACPI,     *)
(* the PCI bus or the PM core; pc is the position of the (single,          *)
(* PM-core serialised) callback thread.  The wake GPE handler is           *)
(* asynchronous and may run at any pc.                                     *)
(***************************************************************************)
EXTENDS Integers, FiniteSets, Sequences, TLC

\* ---------------------------------------------------------------- bounds
NumChildren == 2

\* The poll loop's iteration count ("for (i = 0; i < 300; i++)").
PollMax == 300

Children == 1 .. NumChildren

\* Error codes a generic bus callback may hand back.
BusErrs == {"EBUSY", "EIO"}

VARIABLES
    variant,        \* "power" | "upstream": which file's driver is bound
    attach,         \* what attach has set up: the context and what refers to it
    pc,             \* position of the attach / detach / callback thread
    cb,             \* callback running, or the last one that ran
    ret,            \* value the callback returned
    rpm,            \* dev->power.runtime_status: "active" | "suspended"
    runtime_error,  \* dev->power.runtime_error: "none" or an error code
    is_prepared,    \* dev->power.is_prepared
    system_state,   \* "running" | "halt"
    d3cold_allowed, \* pci_dev->d3cold_allowed of the upstream port
    hw,             \* real power state of the controller: "up" | "pending" | "down"
    armed,          \* the wake GPE is enabled
    port_state,     \* pci_dev->current_state of the upstream port
    saved,          \* pci_dev->state_saved of the upstream port
    child_state,    \* pci_dev->current_state of each device below the port
    child_req,      \* a runtime resume is requested for the child
    dev_req,        \* a runtime resume is requested for the upstream port
    nhi_req,        \* a runtime resume is requested for the NHI
    nhi_usage,      \* the NHI holds the usage reference of pm_runtime_get_noresume
    i,              \* the poll loop's counter
    powered_down,   \* the local of upstream_runtime_suspend: -1 unwritten, 0, 1
    st              \* what the running callback has called so far

vars == <<variant, attach, pc, cb, ret, rpm, runtime_error, is_prepared, system_state,
          d3cold_allowed, hw, armed, port_state, saved, child_state, child_req,
          dev_req, nhi_req, nhi_usage, i, powered_down, st>>

\* Every variable but those a callback step usually writes.
frame == <<variant, attach, cb, rpm, runtime_error, is_prepared, system_state,
           d3cold_allowed, nhi_req>>

St0 == [off |-> 0, on |-> 0, query |-> 0, enable |-> 0, disable |-> 0, walk |-> 0,
        req |-> 0,
        offRes |-> "none", onRes |-> "none", enableRes |-> "none",
        disableRes |-> "none", busRes |-> "none", queryRes |-> "none"]

AllChildren(v) == [c \in Children |-> v]

\* Before attach: no context (struct tb_power / struct tb_upstream), nothing
\* that refers to it, no lookup made.
\*   ctx      the context: "none" | "live" | "freed"
\*   ref      tb->power (power.c) / the service data (upstream.c) points to it
\*   ops      the callback set is installed on the owner device
\*   handler  the wake GPE handler is installed
\*   set, get, gpe  the handles resolved: ->set, ->get, ->wake_gpe
\*   tried    the names looked up, in order
\*   unhooked acpi_remove_gpe_handler has been called
\*   result   how attach ended: "none" | "ok" | "failed"
Att0 == [ctx |-> "none", ref |-> FALSE, ops |-> FALSE, handler |-> FALSE,
         set |-> "none", get |-> FALSE, gpe |-> FALSE, tried |-> <<>>,
         unhooked |-> FALSE, result |-> "none"]

\* ------------------------------------------------ firmware and GPE (ACPI)

\* invokeSet: a successful "power off" starts the rail collapse, a successful
\* "power on" powers the controller; a failed call changes nothing.
SetPower(on, ok) ==
    IF ~ok THEN hw
    ELSE IF on THEN "up"
    ELSE IF hw = "down" THEN "down" ELSE "pending"

\* invokeQuery: the values the query method may report in hardware state h.
QueryReports(h) ==
    CASE h = "up"      -> {0}
      [] h = "pending" -> {0, 1}
      [] h = "down"    -> {1}

\* arm / disarm: Ok changes the channel, Fail leaves it as it was.
EnableGpe(ok) == IF ok THEN TRUE ELSE armed
DisableGpe(ok) == IF ok THEN FALSE ELSE armed

Init ==
    /\ variant \in {"power", "upstream"}
    /\ attach = Att0
    /\ pc = "unbound"
    /\ cb = "none"
    /\ ret = "OK"
    /\ rpm = "active"
    /\ runtime_error = "none"
    /\ is_prepared = FALSE
    /\ system_state = "running"
    /\ d3cold_allowed \in BOOLEAN
    /\ hw = "up"
    /\ armed = FALSE
    /\ port_state = "D0"
    /\ saved = FALSE
    /\ child_state = AllChildren("D0")
    /\ child_req = AllChildren(FALSE)
    /\ dev_req = FALSE
    /\ nhi_req = FALSE
    /\ nhi_usage = FALSE
    /\ i = 0
    /\ powered_down = -1
    /\ st = St0

\* ------------------------------------------------------- PM core (callers)

\* rpm_suspend's checks before it calls ->runtime_suspend: the device is active,
\* carries no runtime error, is not held by a usage reference (the NHI's, or the
\* one device_prepare takes), has no resume pending and no active child.
CanRuntimeSuspend ==
    /\ attach.ops
    /\ pc = "idle"
    /\ rpm = "active"
    /\ runtime_error = "none"
    /\ ~nhi_usage
    /\ ~is_prepared
    /\ ~dev_req
    /\ \A c \in Children : child_state[c] # "D0" /\ ~child_req[c]

\* rpm_resume's checks before it calls ->runtime_resume.
CanRuntimeResume ==
    /\ attach.ops
    /\ pc = "idle"
    /\ rpm = "suspended"
    /\ runtime_error = "none"

\* dpm_prepare calls ->prepare of a device not yet prepared.
CanPrepare ==
    /\ attach.ops
    /\ pc = "idle"
    /\ ~is_prepared
    /\ system_state = "running"

\* dpm_complete calls ->complete of a prepared device.
CanComplete ==
    /\ attach.ops
    /\ pc = "idle"
    /\ is_prepared

\* What every callback entry resets.
Enter(name, s) ==
    /\ cb' = name
    /\ st' = s
    /\ i' = 0
    /\ powered_down' = -1

\* rpm_callback: -EAGAIN and -EBUSY are not recorded as a runtime error.
RecordedError(r) == IF r \in {"OK", "EAGAIN", "EBUSY"} THEN runtime_error ELSE r

\* The PM core takes the callback's return value; the callback's locals and
\* the record of its calls end with it.
pm_return ==
    /\ pc = "ret"
    /\ pc' = "idle"
    /\ rpm' = CASE cb = "runtime_suspend" /\ ret = "OK" -> "suspended"
                [] cb = "runtime_resume" /\ ret = "OK" -> "active"
                [] OTHER -> rpm
    /\ runtime_error' = IF cb \in {"runtime_suspend", "runtime_resume"}
                        THEN RecordedError(ret) ELSE runtime_error
    /\ is_prepared' = IF cb = "prepare" THEN ret \in {"OK", "DIRECT_COMPLETE"}
                      ELSE is_prepared
    /\ dev_req' = IF cb = "runtime_resume" /\ ret = "OK" THEN FALSE ELSE dev_req
    /\ i' = 0
    /\ powered_down' = -1
    /\ st' = St0
    /\ UNCHANGED <<variant, attach, cb, ret, system_state, d3cold_allowed, hw, armed,
                   port_state, saved, child_state, child_req, nhi_req, nhi_usage>>

\* ------------------------------------------- power.c: upstream_runtime_suspend

\* Mutant: the loop never gives up.
P_PollAgain_Forever(k) == TRUE

\* Mutant: the loop gives up one iteration early.
P_PollAgain_OneShort(k) == k < PollMax - 1

\* for (i = 0; i < 300; i++): the loop goes on while this holds of i.
P_PollAgain(k) == k < PollMax

\* pci_walk_bus(pdev->subordinate, set_d3cold, NULL)
P_rs_walk ==
    /\ variant = "power"
    /\ CanRuntimeSuspend
    /\ Enter("runtime_suspend", St0)
    /\ ret' = "none"
    /\ child_state' = AllChildren("D3cold")
    /\ pc' = "rs_bus"
    /\ UNCHANGED <<variant, attach, rpm, runtime_error, is_prepared, system_state,
                   d3cold_allowed, hw, armed, port_state, saved, child_req,
                   dev_req, nhi_req, nhi_usage>>

\* upstream_runtime_suspend going on to the power-off call after the bus
\* callback failed.
P_rs_bus_IgnoreFailure ==
    /\ variant = "power"
    /\ pc = "rs_bus"
    /\ \E r \in {"OK", "EAGAIN"} \cup BusErrs :
         /\ port_state' = "D3hot"
         /\ saved' = TRUE
         /\ st' = [st EXCEPT !.busRes = IF r = "OK" THEN "ok" ELSE "fail"]
         /\ pc' = "rs_off"
         /\ UNCHANGED <<child_req, ret>>
    /\ UNCHANGED <<frame, hw, armed, child_state, dev_req, nhi_usage, i, powered_down>>

\* ret = dev->bus->pm->runtime_suspend(dev); if (ret) { request_resume; return ret; }
P_rs_bus ==
    /\ variant = "power"
    /\ pc = "rs_bus"
    /\ \E r \in {"OK", "EAGAIN"} \cup BusErrs :
         IF r = "OK"
         THEN /\ port_state' = "D3hot"
              /\ saved' = TRUE
              /\ st' = [st EXCEPT !.busRes = "ok"]
              /\ pc' = "rs_off"
              /\ UNCHANGED <<child_req, ret>>
         ELSE /\ child_req' = AllChildren(TRUE)
              /\ st' = [st EXCEPT !.busRes = "fail", !.walk = @ + 1]
              /\ ret' = r
              /\ pc' = "ret"
              /\ UNCHANGED <<port_state, saved>>
    /\ UNCHANGED <<frame, hw, armed, child_state, dev_req, nhi_usage, i, powered_down>>

\* pdev->current_state = PCI_D3cold; acpi_execute_simple_method(power->set, NULL, 0)
P_rs_off ==
    /\ variant = "power"
    /\ pc = "rs_off"
    /\ port_state' = "D3cold"
    /\ \E ok \in BOOLEAN :
         /\ hw' = SetPower(FALSE, ok)
         /\ st' = [st EXCEPT !.off = @ + 1, !.offRes = IF ok THEN "ok" ELSE "fail"]
         /\ pc' = IF ok THEN "rs_poll" ELSE "rs_err"
    /\ UNCHANGED <<frame, ret, armed, saved, child_state, child_req, dev_req,
                   nhi_usage, i, powered_down>>

\* The poll loop going on to the next iteration after a failed query.
P_rs_poll_IgnoreFailure ==
    /\ variant = "power"
    /\ pc = "rs_poll"
    /\ \E ok \in BOOLEAN :
         IF ~ok
         THEN /\ st' = [st EXCEPT !.query = @ + 1, !.queryRes = "fail"]
              /\ i' = i + 1
              /\ pc' = IF P_PollAgain(i + 1) THEN "rs_poll" ELSE "rs_err"
              /\ UNCHANGED <<hw, powered_down>>
         ELSE \E v \in QueryReports(hw) :
                /\ st' = [st EXCEPT !.query = @ + 1, !.queryRes = "ok"]
                /\ powered_down' = v
                /\ hw' = IF v = 1 THEN "down" ELSE hw
                /\ IF v # 0
                   THEN /\ pc' = "rs_check"
                        /\ i' = i
                   ELSE /\ i' = i + 1
                        /\ pc' = IF P_PollAgain(i + 1) THEN "rs_poll" ELSE "rs_check"
    /\ UNCHANGED <<frame, ret, armed, port_state, saved, child_state, child_req,
                   dev_req, nhi_usage>>

\* One iteration of the poll loop: acpi_evaluate_integer(power->get, ...).
P_rs_poll ==
    /\ variant = "power"
    /\ pc = "rs_poll"
    /\ \E ok \in BOOLEAN :
         IF ~ok
         THEN /\ st' = [st EXCEPT !.query = @ + 1, !.queryRes = "fail"]
              /\ pc' = "rs_err"
              /\ UNCHANGED <<hw, i, powered_down>>
         ELSE \E v \in QueryReports(hw) :
                /\ st' = [st EXCEPT !.query = @ + 1, !.queryRes = "ok"]
                /\ powered_down' = v
                /\ hw' = IF v = 1 THEN "down" ELSE hw
                /\ IF v # 0
                   THEN /\ pc' = "rs_check"
                        /\ i' = i
                   ELSE /\ i' = i + 1
                        /\ pc' = IF P_PollAgain(i + 1) THEN "rs_poll" ELSE "rs_check"
    /\ UNCHANGED <<frame, ret, armed, port_state, saved, child_state, child_req,
                   dev_req, nhi_usage>>

\* Mutant: the check of powered_down after the loop is missing.
P_rs_check_NoTimeout ==
    /\ variant = "power"
    /\ pc = "rs_check"
    /\ pc' = "rs_arm"
    /\ UNCHANGED <<frame, ret, hw, armed, port_state, saved, child_state, child_req,
                   dev_req, nhi_usage, i, powered_down, st>>

\* if (!powered_down) goto err_resume;
P_rs_check ==
    /\ variant = "power"
    /\ pc = "rs_check"
    /\ pc' = IF powered_down = 0 THEN "rs_err" ELSE "rs_arm"
    /\ UNCHANGED <<frame, ret, hw, armed, port_state, saved, child_state, child_req,
                   dev_req, nhi_usage, i, powered_down, st>>

\* Mutant: "return 0;" is missing, success falls through into err_resume.
P_rs_arm_FallThrough ==
    /\ variant = "power"
    /\ pc = "rs_arm"
    /\ \E ok \in BOOLEAN :
         /\ armed' = EnableGpe(ok)
         /\ st' = [st EXCEPT !.enable = @ + 1, !.enableRes = IF ok THEN "ok" ELSE "fail"]
    /\ pc' = "rs_err"
    /\ UNCHANGED <<frame, ret, hw, port_state, saved, child_state, child_req, dev_req,
                   nhi_usage, i, powered_down>>

\* Mutant: a failed enable returns -EAGAIN at once, without err_resume.
P_rs_arm_NoRollback ==
    /\ variant = "power"
    /\ pc = "rs_arm"
    /\ \E ok \in BOOLEAN :
         /\ armed' = EnableGpe(ok)
         /\ st' = [st EXCEPT !.enable = @ + 1, !.enableRes = IF ok THEN "ok" ELSE "fail"]
         /\ ret' = IF ok THEN "OK" ELSE "EAGAIN"
    /\ pc' = "ret"
    /\ UNCHANGED <<frame, hw, port_state, saved, child_state, child_req, dev_req,
                   nhi_usage, i, powered_down>>

\* if (ACPI_FAILURE(acpi_enable_gpe(NULL, power->wake_gpe))) goto err_resume; return 0;
P_rs_arm ==
    /\ variant = "power"
    /\ pc = "rs_arm"
    /\ \E ok \in BOOLEAN :
         /\ armed' = EnableGpe(ok)
         /\ st' = [st EXCEPT !.enable = @ + 1, !.enableRes = IF ok THEN "ok" ELSE "fail"]
         /\ pc' = IF ok THEN "ret" ELSE "rs_err"
         /\ ret' = IF ok THEN "OK" ELSE ret
    /\ UNCHANGED <<frame, hw, port_state, saved, child_state, child_req, dev_req,
                   nhi_usage, i, powered_down>>

\* err_resume without the call of the bus's runtime_resume.
P_rs_err_on_SkipUndo ==
    /\ variant = "power"
    /\ pc = "rs_err"
    /\ \E ok \in BOOLEAN :
         /\ hw' = SetPower(TRUE, ok)
         /\ st' = [st EXCEPT !.on = @ + 1, !.onRes = IF ok THEN "ok" ELSE "fail"]
    /\ pc' = "rs_err_walk"
    /\ UNCHANGED <<frame, ret, armed, port_state, saved, child_state, child_req,
                   dev_req, nhi_usage, i, powered_down>>

\* err_resume: acpi_execute_simple_method(power->set, NULL, 1); (result dropped)
P_rs_err_on ==
    /\ variant = "power"
    /\ pc = "rs_err"
    /\ \E ok \in BOOLEAN :
         /\ hw' = SetPower(TRUE, ok)
         /\ st' = [st EXCEPT !.on = @ + 1, !.onRes = IF ok THEN "ok" ELSE "fail"]
    /\ pc' = "rs_err_bus"
    /\ UNCHANGED <<frame, ret, armed, port_state, saved, child_state, child_req,
                   dev_req, nhi_usage, i, powered_down>>

\* dev->bus->pm->runtime_resume(dev); (result dropped)
P_rs_err_bus ==
    /\ variant = "power"
    /\ pc = "rs_err_bus"
    /\ port_state' = "D0"
    /\ saved' = FALSE
    /\ pc' = "rs_err_walk"
    /\ UNCHANGED <<frame, ret, hw, armed, child_state, child_req, dev_req,
                   nhi_usage, i, powered_down, st>>

\* Mutant: the rollback returns without walking the children.
P_rs_err_walk_NoRequest ==
    /\ variant = "power"
    /\ pc = "rs_err_walk"
    /\ ret' = "EAGAIN"
    /\ pc' = "ret"
    /\ UNCHANGED <<frame, hw, armed, port_state, saved, child_state, child_req,
                   dev_req, nhi_usage, i, powered_down, st>>

\* pci_walk_bus(pdev->subordinate, request_resume, NULL); return -EAGAIN;
P_rs_err_walk ==
    /\ variant = "power"
    /\ pc = "rs_err_walk"
    /\ child_req' = AllChildren(TRUE)
    /\ st' = [st EXCEPT !.walk = @ + 1]
    /\ ret' = "EAGAIN"
    /\ pc' = "ret"
    /\ UNCHANGED <<frame, hw, armed, port_state, saved, child_state, dev_req,
                   nhi_usage, i, powered_down>>

P_upstream_runtime_suspend ==
    \/ P_rs_walk
    \/ P_rs_bus
    \/ P_rs_off
    \/ P_rs_poll
    \/ P_rs_check
    \/ P_rs_arm
    \/ P_rs_err_on
    \/ P_rs_err_bus
    \/ P_rs_err_walk

\* -------------------------------------------- power.c: upstream_runtime_resume

\* upstream_runtime_resume without pm_runtime_get_noresume on a failed disable.
P_rr_disable_NoUsageRef ==
    /\ variant = "power"
    /\ CanRuntimeResume
    /\ IF is_prepared
       THEN /\ Enter("runtime_resume", St0)
            /\ UNCHANGED <<armed, nhi_usage>>
       ELSE \E ok \in BOOLEAN :
              /\ armed' = DisableGpe(ok)
              /\ nhi_usage' = nhi_usage
              /\ Enter("runtime_resume",
                       [St0 EXCEPT !.disable = 1,
                                   !.disableRes = IF ok THEN "ok" ELSE "fail"])
    /\ ret' = "none"
    /\ pc' = "rr_on"
    /\ UNCHANGED <<variant, attach, rpm, runtime_error, is_prepared, system_state,
                   d3cold_allowed, hw, port_state, saved, child_state, child_req,
                   dev_req, nhi_req>>

\* if (!dev->power.is_prepared && ACPI_FAILURE(acpi_disable_gpe(...)))
\*         pm_runtime_get_noresume(&power->tb->nhi->pdev->dev);
P_rr_disable ==
    /\ variant = "power"
    /\ CanRuntimeResume
    /\ IF is_prepared
       THEN /\ Enter("runtime_resume", St0)
            /\ UNCHANGED <<armed, nhi_usage>>
       ELSE \E ok \in BOOLEAN :
              /\ armed' = DisableGpe(ok)
              /\ nhi_usage' = (nhi_usage \/ ~ok)
              /\ Enter("runtime_resume",
                       [St0 EXCEPT !.disable = 1,
                                   !.disableRes = IF ok THEN "ok" ELSE "fail"])
    /\ ret' = "none"
    /\ pc' = "rr_on"
    /\ UNCHANGED <<variant, attach, rpm, runtime_error, is_prepared, system_state,
                   d3cold_allowed, hw, port_state, saved, child_state, child_req,
                   dev_req, nhi_req>>

\* upstream_runtime_resume going on after a failed power-on call.
P_rr_on_IgnoreFailure ==
    /\ variant = "power"
    /\ pc = "rr_on"
    /\ \E ok \in BOOLEAN :
         /\ hw' = SetPower(TRUE, ok)
         /\ st' = [st EXCEPT !.on = @ + 1, !.onRes = IF ok THEN "ok" ELSE "fail"]
         /\ pc' = "rr_bus"
         /\ ret' = ret
    /\ UNCHANGED <<frame, armed, port_state, saved, child_state, child_req, dev_req,
                   nhi_usage, i, powered_down>>

\* if (ACPI_FAILURE(acpi_execute_simple_method(power->set, NULL, 1))) return -ENODEV;
P_rr_on ==
    /\ variant = "power"
    /\ pc = "rr_on"
    /\ \E ok \in BOOLEAN :
         /\ hw' = SetPower(TRUE, ok)
         /\ st' = [st EXCEPT !.on = @ + 1, !.onRes = IF ok THEN "ok" ELSE "fail"]
         /\ pc' = IF ok THEN "rr_bus" ELSE "ret"
         /\ ret' = IF ok THEN ret ELSE "ENODEV"
    /\ UNCHANGED <<frame, armed, port_state, saved, child_state, child_req, dev_req,
                   nhi_usage, i, powered_down>>

\* upstream_runtime_resume returning as soon as the bus callback fails.
P_rr_bus_ReturnOnError ==
    /\ variant = "power"
    /\ pc = "rr_bus"
    /\ port_state' = "D0"
    /\ \E r \in {"OK"} \cup BusErrs :
         /\ ret' = r
         /\ st' = [st EXCEPT !.busRes = IF r = "OK" THEN "ok" ELSE "fail"]
         /\ pc' = IF r = "OK" THEN "rr_walk" ELSE "ret"
    /\ saved' = FALSE
    /\ UNCHANGED <<frame, hw, armed, child_state, child_req, dev_req,
                   nhi_usage, i, powered_down>>

\* ret = dev->bus->pm->runtime_resume(dev);
P_rr_bus ==
    /\ variant = "power"
    /\ pc = "rr_bus"
    /\ port_state' = "D0"
    /\ \E r \in {"OK"} \cup BusErrs :
         /\ ret' = r
         /\ st' = [st EXCEPT !.busRes = IF r = "OK" THEN "ok" ELSE "fail"]
    /\ saved' = FALSE
    /\ pc' = "rr_walk"
    /\ UNCHANGED <<frame, hw, armed, child_state, child_req, dev_req,
                   nhi_usage, i, powered_down>>

\* pci_walk_bus(pdev->subordinate, request_resume, NULL); return ret;
P_rr_walk ==
    /\ variant = "power"
    /\ pc = "rr_walk"
    /\ child_req' = AllChildren(TRUE)
    /\ st' = [st EXCEPT !.walk = @ + 1]
    /\ pc' = "ret"
    /\ UNCHANGED <<frame, ret, hw, armed, port_state, saved, child_state, dev_req,
                   nhi_usage, i, powered_down>>

P_upstream_runtime_resume ==
    \/ P_rr_disable
    \/ P_rr_on
    \/ P_rr_bus
    \/ P_rr_walk

\* ------------------------------------ power.c: upstream_prepare / _complete

\* if (pm_runtime_active(dev)) return 0;
\* if (ACPI_FAILURE(acpi_disable_gpe(...))) { pm_request_resume(dev); return -EAGAIN; }
\* return DPM_DIRECT_COMPLETE;
P_upstream_prepare ==
    /\ variant = "power"
    /\ CanPrepare
    /\ IF rpm = "active"
       THEN /\ Enter("prepare", St0)
            /\ ret' = "OK"
            /\ UNCHANGED <<armed, dev_req>>
       ELSE \E ok \in BOOLEAN :
              /\ armed' = DisableGpe(ok)
              /\ dev_req' = (dev_req \/ ~ok)
              /\ Enter("prepare",
                       [St0 EXCEPT !.disable = 1,
                                   !.disableRes = IF ok THEN "ok" ELSE "fail",
                                   !.req = IF ok THEN 0 ELSE 1])
              /\ ret' = IF ok THEN "DIRECT_COMPLETE" ELSE "EAGAIN"
    /\ pc' = "ret"
    /\ UNCHANGED <<variant, attach, rpm, runtime_error, is_prepared, system_state,
                   d3cold_allowed, hw, port_state, saved, child_state, child_req,
                   nhi_req, nhi_usage>>

\* if (pm_runtime_active(dev)) return;
P_co_enter ==
    /\ variant = "power"
    /\ CanComplete
    /\ Enter("complete", St0)
    /\ is_prepared' = FALSE
    /\ ret' = IF rpm = "active" THEN "void" ELSE "none"
    /\ pc' = IF rpm = "active" THEN "ret" ELSE "co_pulse"
    /\ UNCHANGED <<variant, attach, rpm, runtime_error, system_state, d3cold_allowed, hw,
                   armed, port_state, saved, child_state, child_req, dev_req,
                   nhi_req, nhi_usage>>

\* upstream_complete pulsing with set(1) instead of set(0).
P_co_pulse_PowersOn ==
    /\ variant = "power"
    /\ pc = "co_pulse"
    /\ \E ok \in BOOLEAN :
         /\ hw' = SetPower(TRUE, ok)
         /\ st' = [st EXCEPT !.off = @ + 1, !.offRes = IF ok THEN "ok" ELSE "fail"]
         /\ runtime_error' = IF ok THEN runtime_error ELSE "EIO"
    /\ pc' = "co_arm"
    /\ UNCHANGED <<variant, attach, cb, ret, rpm, is_prepared, system_state,
                   d3cold_allowed, armed, port_state, saved, child_state,
                   child_req, dev_req, nhi_req, nhi_usage, i, powered_down>>

\* upstream_complete not recording the failure of the pulse.
P_co_pulse_NoError ==
    /\ variant = "power"
    /\ pc = "co_pulse"
    /\ \E ok \in BOOLEAN :
         /\ hw' = SetPower(FALSE, ok)
         /\ st' = [st EXCEPT !.off = @ + 1, !.offRes = IF ok THEN "ok" ELSE "fail"]
         /\ runtime_error' = runtime_error
    /\ pc' = "co_arm"
    /\ UNCHANGED <<variant, attach, cb, ret, rpm, is_prepared, system_state,
                   d3cold_allowed, armed, port_state, saved, child_state,
                   child_req, dev_req, nhi_req, nhi_usage, i, powered_down>>

\* if (ACPI_FAILURE(acpi_execute_simple_method(power->set, NULL, 0)))
\*         dev->power.runtime_error = -EIO;
P_co_pulse ==
    /\ variant = "power"
    /\ pc = "co_pulse"
    /\ \E ok \in BOOLEAN :
         /\ hw' = SetPower(FALSE, ok)
         /\ st' = [st EXCEPT !.off = @ + 1, !.offRes = IF ok THEN "ok" ELSE "fail"]
         /\ runtime_error' = IF ok THEN runtime_error ELSE "EIO"
    /\ pc' = "co_arm"
    /\ UNCHANGED <<variant, attach, cb, ret, rpm, is_prepared, system_state, d3cold_allowed,
                   armed, port_state, saved, child_state, child_req, dev_req,
                   nhi_req, nhi_usage, i, powered_down>>

\* upstream_complete without pm_request_resume on a failed enable.
P_co_arm_NoRequest ==
    /\ variant = "power"
    /\ pc = "co_arm"
    /\ \E ok \in BOOLEAN :
         /\ armed' = EnableGpe(ok)
         /\ dev_req' = dev_req
         /\ st' = [st EXCEPT !.enable = @ + 1, !.enableRes = IF ok THEN "ok" ELSE "fail"]
    /\ ret' = "void"
    /\ pc' = "ret"
    /\ UNCHANGED <<frame, hw, port_state, saved, child_state, child_req, nhi_usage,
                   i, powered_down>>

\* if (ACPI_FAILURE(acpi_enable_gpe(...))) pm_request_resume(dev);
P_co_arm ==
    /\ variant = "power"
    /\ pc = "co_arm"
    /\ \E ok \in BOOLEAN :
         /\ armed' = EnableGpe(ok)
         /\ dev_req' = (dev_req \/ ~ok)
         /\ st' = [st EXCEPT !.enable = @ + 1, !.enableRes = IF ok THEN "ok" ELSE "fail",
                             !.req = IF ok THEN @ ELSE @ + 1]
    /\ ret' = "void"
    /\ pc' = "ret"
    /\ UNCHANGED <<frame, hw, port_state, saved, child_state, child_req, nhi_usage,
                   i, powered_down>>

P_upstream_complete ==
    \/ P_co_enter
    \/ P_co_pulse
    \/ P_co_arm

\* ---------------------------------------- upstream.c: upstream_runtime_suspend

\* for (i = 0; i < 300; i++)
U_PollAgain(k) == k < PollMax

\* upstream_runtime_suspend without its first test.
U_rs_enter_NoD3coldTest ==
    /\ variant = "upstream"
    /\ CanRuntimeSuspend
    /\ Enter("runtime_suspend", St0)
    /\ ret' = "none"
    /\ saved' = TRUE
    /\ port_state' = "D3cold"
    /\ child_state' = AllChildren("D3cold")
    /\ pc' = "rs_off"
    /\ UNCHANGED <<variant, attach, rpm, runtime_error, is_prepared, system_state,
                   d3cold_allowed, hw, armed, child_req, dev_req, nhi_req, nhi_usage>>

\* if (!dev->port->d3cold_allowed) return -EAGAIN;
\* pci_save_state(dev->port); pci_walk_bus(dev->port->bus, pm_set_d3cold_cb, NULL);
U_rs_enter ==
    /\ variant = "upstream"
    /\ CanRuntimeSuspend
    /\ Enter("runtime_suspend", St0)
    /\ IF ~d3cold_allowed
       THEN /\ ret' = "EAGAIN"
            /\ pc' = "ret"
            /\ UNCHANGED <<saved, port_state, child_state>>
       ELSE /\ ret' = "none"
            /\ saved' = TRUE
            /\ port_state' = "D3cold"
            /\ child_state' = AllChildren("D3cold")
            /\ pc' = "rs_off"
    /\ UNCHANGED <<variant, attach, rpm, runtime_error, is_prepared, system_state,
                   d3cold_allowed, hw, armed, child_req, dev_req, nhi_req, nhi_usage>>

\* acpi_execute_simple_method(upstream->set_power, NULL, 0)
U_rs_off ==
    /\ variant = "upstream"
    /\ pc = "rs_off"
    /\ \E ok \in BOOLEAN :
         /\ hw' = SetPower(FALSE, ok)
         /\ st' = [st EXCEPT !.off = @ + 1, !.offRes = IF ok THEN "ok" ELSE "fail"]
         /\ pc' = IF ok THEN "rs_poll" ELSE "rs_err"
    /\ UNCHANGED <<frame, ret, armed, port_state, saved, child_state, child_req,
                   dev_req, nhi_usage, i, powered_down>>

\* One iteration of the poll loop: acpi_evaluate_integer(upstream->get_power, ...).
U_rs_poll ==
    /\ variant = "upstream"
    /\ pc = "rs_poll"
    /\ \E ok \in BOOLEAN :
         IF ~ok
         THEN /\ st' = [st EXCEPT !.query = @ + 1, !.queryRes = "fail"]
              /\ pc' = "rs_err"
              /\ UNCHANGED <<hw, i, powered_down>>
         ELSE \E v \in QueryReports(hw) :
                /\ st' = [st EXCEPT !.query = @ + 1, !.queryRes = "ok"]
                /\ powered_down' = v
                /\ hw' = IF v = 1 THEN "down" ELSE hw
                /\ IF v # 0
                   THEN /\ pc' = "rs_check"
                        /\ i' = i
                   ELSE /\ i' = i + 1
                        /\ pc' = IF U_PollAgain(i + 1) THEN "rs_poll" ELSE "rs_check"
    /\ UNCHANGED <<frame, ret, armed, port_state, saved, child_state, child_req,
                   dev_req, nhi_usage>>

\* Mutant: the check of powered_down after the loop is missing.
U_rs_check_NoTimeout ==
    /\ variant = "upstream"
    /\ pc = "rs_check"
    /\ pc' = "rs_arm"
    /\ UNCHANGED <<frame, ret, hw, armed, port_state, saved, child_state, child_req,
                   dev_req, nhi_usage, i, powered_down, st>>

\* if (!powered_down) goto err;
U_rs_check ==
    /\ variant = "upstream"
    /\ pc = "rs_check"
    /\ pc' = IF powered_down = 0 THEN "rs_err" ELSE "rs_arm"
    /\ UNCHANGED <<frame, ret, hw, armed, port_state, saved, child_state, child_req,
                   dev_req, nhi_usage, i, powered_down, st>>

\* if (ACPI_FAILURE(acpi_enable_gpe(NULL, upstream->wake_gpe))) goto err; return 0;
U_rs_arm ==
    /\ variant = "upstream"
    /\ pc = "rs_arm"
    /\ \E ok \in BOOLEAN :
         /\ armed' = EnableGpe(ok)
         /\ st' = [st EXCEPT !.enable = @ + 1, !.enableRes = IF ok THEN "ok" ELSE "fail"]
         /\ pc' = IF ok THEN "ret" ELSE "rs_err"
         /\ ret' = IF ok THEN "OK" ELSE ret
    /\ UNCHANGED <<frame, hw, port_state, saved, child_state, child_req, dev_req,
                   nhi_usage, i, powered_down>>

\* err: acpi_execute_simple_method(upstream->set_power, NULL, 1); (result dropped)
U_rs_err_on ==
    /\ variant = "upstream"
    /\ pc = "rs_err"
    /\ \E ok \in BOOLEAN :
         /\ hw' = SetPower(TRUE, ok)
         /\ st' = [st EXCEPT !.on = @ + 1, !.onRes = IF ok THEN "ok" ELSE "fail"]
    /\ pc' = "rs_err_bus"
    /\ UNCHANGED <<frame, ret, armed, port_state, saved, child_state, child_req,
                   dev_req, nhi_usage, i, powered_down>>

\* dev->port->current_state = PCI_D0; pci_restore_state(dev->port);
U_rs_err_restore ==
    /\ variant = "upstream"
    /\ pc = "rs_err_bus"
    /\ port_state' = "D0"
    /\ saved' = FALSE
    /\ pc' = "rs_err_walk"
    /\ UNCHANGED <<frame, ret, hw, armed, child_state, child_req, dev_req,
                   nhi_usage, i, powered_down, st>>

\* pci_walk_bus(dev->port->subordinate, pm_set_d3hot_and_resume_cb, NULL);
\* return -EAGAIN;
U_rs_err_walk ==
    /\ variant = "upstream"
    /\ pc = "rs_err_walk"
    /\ child_state' = AllChildren("D3hot")
    /\ child_req' = AllChildren(TRUE)
    /\ st' = [st EXCEPT !.walk = @ + 1]
    /\ ret' = "EAGAIN"
    /\ pc' = "ret"
    /\ UNCHANGED <<frame, hw, armed, port_state, saved, dev_req, nhi_usage, i,
                   powered_down>>

U_upstream_runtime_suspend ==
    \/ U_rs_enter
    \/ U_rs_off
    \/ U_rs_poll
    \/ U_rs_check
    \/ U_rs_arm
    \/ U_rs_err_on
    \/ U_rs_err_restore
    \/ U_rs_err_walk

\* ----------------------------------------- upstream.c: upstream_runtime_resume

\* Mutant: the system state is not looked at.
U_ShuttingDown_Never == FALSE

\* if (system_state >= SYSTEM_HALT) return -ESHUTDOWN;
U_ShuttingDown == system_state = "halt"

U_rr_enter ==
    /\ variant = "upstream"
    /\ CanRuntimeResume
    /\ Enter("runtime_resume", St0)
    /\ ret' = IF U_ShuttingDown THEN "ESHUTDOWN" ELSE "none"
    /\ pc' = IF U_ShuttingDown THEN "ret" ELSE "rr_disable"
    /\ UNCHANGED <<variant, attach, rpm, runtime_error, is_prepared, system_state,
                   d3cold_allowed, hw, armed, port_state, saved, child_state,
                   child_req, dev_req, nhi_req, nhi_usage>>

\* upstream_runtime_resume without the acpi_disable_gpe call.
U_rr_disable_Skipped ==
    /\ variant = "upstream"
    /\ pc = "rr_disable"
    /\ pc' = "rr_on"
    /\ UNCHANGED <<frame, ret, hw, armed, port_state, saved, child_state, child_req,
                   dev_req, nhi_usage, i, powered_down, st>>

\* if (ACPI_FAILURE(acpi_disable_gpe(NULL, upstream->wake_gpe)))
\*         pm_runtime_get_noresume(&upstream->nhi->dev);
U_rr_disable ==
    /\ variant = "upstream"
    /\ pc = "rr_disable"
    /\ \E ok \in BOOLEAN :
         /\ armed' = DisableGpe(ok)
         /\ nhi_usage' = (nhi_usage \/ ~ok)
         /\ st' = [st EXCEPT !.disable = @ + 1,
                             !.disableRes = IF ok THEN "ok" ELSE "fail"]
    /\ pc' = "rr_on"
    /\ UNCHANGED <<frame, ret, hw, port_state, saved, child_state, child_req,
                   dev_req, i, powered_down>>

\* if (ACPI_FAILURE(acpi_execute_simple_method(upstream->set_power, NULL, 1)))
\*         return -ENODEV;
U_rr_on ==
    /\ variant = "upstream"
    /\ pc = "rr_on"
    /\ \E ok \in BOOLEAN :
         /\ hw' = SetPower(TRUE, ok)
         /\ st' = [st EXCEPT !.on = @ + 1, !.onRes = IF ok THEN "ok" ELSE "fail"]
         /\ pc' = IF ok THEN "rr_bus" ELSE "ret"
         /\ ret' = IF ok THEN ret ELSE "ENODEV"
    /\ UNCHANGED <<frame, armed, port_state, saved, child_state, child_req, dev_req,
                   nhi_usage, i, powered_down>>

\* dev->port->current_state = PCI_D0; pci_restore_state(dev->port);
U_rr_restore ==
    /\ variant = "upstream"
    /\ pc = "rr_bus"
    /\ port_state' = "D0"
    /\ saved' = FALSE
    /\ pc' = "rr_walk"
    /\ UNCHANGED <<frame, ret, hw, armed, child_state, child_req, dev_req,
                   nhi_usage, i, powered_down, st>>

\* pci_walk_bus(dev->port->subordinate, pm_set_d3hot_and_resume_cb, NULL); return 0;
U_rr_walk ==
    /\ variant = "upstream"
    /\ pc = "rr_walk"
    /\ child_state' = AllChildren("D3hot")
    /\ child_req' = AllChildren(TRUE)
    /\ st' = [st EXCEPT !.walk = @ + 1]
    /\ ret' = "OK"
    /\ pc' = "ret"
    /\ UNCHANGED <<frame, hw, armed, port_state, saved, dev_req, nhi_usage, i,
                   powered_down>>

U_upstream_runtime_resume ==
    \/ U_rr_enter
    \/ U_rr_disable
    \/ U_rr_on
    \/ U_rr_restore
    \/ U_rr_walk

\* --------------------------------- upstream.c: upstream_prepare / _complete

\* Mutant: the GPE is disabled whatever the runtime status.
U_upstream_prepare_Always ==
    /\ variant = "upstream"
    /\ CanPrepare
    /\ \E ok \in BOOLEAN :
         /\ armed' = DisableGpe(ok)
         /\ dev_req' = (dev_req \/ ~ok)
         /\ Enter("prepare",
                  [St0 EXCEPT !.disable = 1,
                              !.disableRes = IF ok THEN "ok" ELSE "fail",
                              !.req = IF ok THEN 0 ELSE 1])
    /\ ret' = "OK"
    /\ pc' = "ret"
    /\ UNCHANGED <<variant, attach, rpm, runtime_error, is_prepared, system_state,
                   d3cold_allowed, hw, port_state, saved, child_state, child_req,
                   nhi_req, nhi_usage>>

\* if (pm_runtime_suspended(&dev->port->dev) &&
\*     ACPI_FAILURE(acpi_disable_gpe(NULL, upstream->wake_gpe)))
\*         pm_request_resume(&dev->port->dev);
\* return 0;
U_upstream_prepare ==
    /\ variant = "upstream"
    /\ CanPrepare
    /\ IF rpm # "suspended"
       THEN /\ Enter("prepare", St0)
            /\ UNCHANGED <<armed, dev_req>>
       ELSE \E ok \in BOOLEAN :
              /\ armed' = DisableGpe(ok)
              /\ dev_req' = (dev_req \/ ~ok)
              /\ Enter("prepare",
                       [St0 EXCEPT !.disable = 1,
                                   !.disableRes = IF ok THEN "ok" ELSE "fail",
                                   !.req = IF ok THEN 0 ELSE 1])
    /\ ret' = "OK"
    /\ pc' = "ret"
    /\ UNCHANGED <<variant, attach, rpm, runtime_error, is_prepared, system_state,
                   d3cold_allowed, hw, port_state, saved, child_state, child_req,
                   nhi_req, nhi_usage>>

\* if (pm_runtime_active(&dev->port->dev)) return 0;
U_co_enter ==
    /\ variant = "upstream"
    /\ CanComplete
    /\ Enter("complete", St0)
    /\ is_prepared' = FALSE
    /\ ret' = IF rpm = "active" THEN "OK" ELSE "none"
    /\ pc' = IF rpm = "active" THEN "ret" ELSE "co_pulse"
    /\ UNCHANGED <<variant, attach, rpm, runtime_error, system_state, d3cold_allowed, hw,
                   armed, port_state, saved, child_state, child_req, dev_req,
                   nhi_req, nhi_usage>>

\* if (ACPI_FAILURE(acpi_execute_simple_method(upstream->set_power, NULL, 0)))
\*         dev->port->dev.power.runtime_error = -ENODEV;
U_co_pulse ==
    /\ variant = "upstream"
    /\ pc = "co_pulse"
    /\ \E ok \in BOOLEAN :
         /\ hw' = SetPower(FALSE, ok)
         /\ st' = [st EXCEPT !.off = @ + 1, !.offRes = IF ok THEN "ok" ELSE "fail"]
         /\ runtime_error' = IF ok THEN runtime_error ELSE "ENODEV"
    /\ pc' = "co_arm"
    /\ UNCHANGED <<variant, attach, cb, ret, rpm, is_prepared, system_state, d3cold_allowed,
                   armed, port_state, saved, child_state, child_req, dev_req,
                   nhi_req, nhi_usage, i, powered_down>>

\* if (ACPI_FAILURE(acpi_enable_gpe(...))) pm_request_resume(&dev->port->dev);
\* return 0;
U_co_arm ==
    /\ variant = "upstream"
    /\ pc = "co_arm"
    /\ \E ok \in BOOLEAN :
         /\ armed' = EnableGpe(ok)
         /\ dev_req' = (dev_req \/ ~ok)
         /\ st' = [st EXCEPT !.enable = @ + 1, !.enableRes = IF ok THEN "ok" ELSE "fail",
                             !.req = IF ok THEN @ ELSE @ + 1]
    /\ ret' = "OK"
    /\ pc' = "ret"
    /\ UNCHANGED <<frame, hw, port_state, saved, child_state, child_req, nhi_usage,
                   i, powered_down>>

U_upstream_complete ==
    \/ U_co_enter
    \/ U_co_pulse
    \/ U_co_arm

\* ------------------------------------------------------- wake GPE handlers

\* ------------------------- power.c: thunderbolt_power_init / _power_fini

\* Every variable the callbacks work on; attach and detach leave them alone.
pmvars == <<cb, ret, rpm, runtime_error, is_prepared, system_state,
            d3cold_allowed, hw, armed, port_state, saved, child_state,
            child_req, dev_req, nhi_req, nhi_usage, i, powered_down, st>>

\* The aliases of the set method looked up in the opposite order.
LookupSet_TrpeFirst(a, xrpe, trpe) ==
    [a EXCEPT !.tried = IF trpe THEN <<"TRPE">> ELSE <<"TRPE", "XRPE">>,
              !.set = IF trpe THEN "TRPE" ELSE IF xrpe THEN "XRPE" ELSE "none"]

\* acpi_get_handle(nhi_handle, "XRPE", &set) failing && acpi_get_handle(
\* nhi_handle, "TRPE", &set) failing: the second lookup is made only if the
\* first failed.
LookupSet(a, xrpe, trpe) ==
    [a EXCEPT !.tried = IF xrpe THEN <<"XRPE">> ELSE <<"XRPE", "TRPE">>,
              !.set = IF xrpe THEN "XRPE" ELSE IF trpe THEN "TRPE" ELSE "none"]

\* power = kzalloc(...); nhi_handle = ACPI_HANDLE(nhi_dev);
\* upstream_dev = nhi_dev->parent->parent; each failing: goto err_free
P_init_alloc ==
    /\ variant = "power"
    /\ pc = "unbound"
    /\ \E mem \in BOOLEAN, found \in BOOLEAN :
         /\ attach' = [attach EXCEPT !.ctx = IF mem THEN "live" ELSE "none"]
         /\ pc' = IF mem /\ found THEN "init_set" ELSE "init_err"
    /\ UNCHANGED <<variant, pmvars>>

\* if (XRPE fails && TRPE fails) goto err_free;
P_init_set ==
    /\ variant = "power"
    /\ pc = "init_set"
    /\ \E xrpe \in BOOLEAN, trpe \in BOOLEAN :
         /\ attach' = LookupSet(attach, xrpe, trpe)
         /\ pc' = IF xrpe \/ trpe THEN "init_get" ELSE "init_err"
    /\ UNCHANGED <<variant, pmvars>>

\* if (ACPI_FAILURE(acpi_get_handle(nhi_handle, "XRIL", &power->get))) goto err_free;
P_init_get ==
    /\ variant = "power"
    /\ pc = "init_get"
    /\ \E ok \in BOOLEAN :
         /\ attach' = [attach EXCEPT !.tried = Append(@, "XRIL"), !.get = ok]
         /\ pc' = IF ok THEN "init_gpe" ELSE "init_err"
    /\ UNCHANGED <<variant, pmvars>>

\* if (ACPI_FAILURE(acpi_evaluate_integer(nhi_handle, "XRIN", NULL,
\*                                        &power->wake_gpe))) goto err_free;
P_init_gpe ==
    /\ variant = "power"
    /\ pc = "init_gpe"
    /\ \E ok \in BOOLEAN :
         /\ attach' = [attach EXCEPT !.tried = Append(@, "XRIN"), !.gpe = ok]
         /\ pc' = IF ok THEN "init_install" ELSE "init_err"
    /\ UNCHANGED <<variant, pmvars>>

\* thunderbolt_power_init going on after acpi_install_gpe_handler failed.
P_init_install_IgnoreFailure ==
    /\ variant = "power"
    /\ pc = "init_install"
    /\ \E ok \in BOOLEAN :
         /\ attach' = [attach EXCEPT !.handler = ok]
         /\ pc' = "init_finish"
    /\ UNCHANGED <<variant, pmvars>>

\* if (ACPI_FAILURE(acpi_install_gpe_handler(NULL, power->wake_gpe,
\*                  ACPI_GPE_LEVEL_TRIGGERED, nhi_wake, nhi_dev))) goto err_free;
P_init_install ==
    /\ variant = "power"
    /\ pc = "init_install"
    /\ \E ok \in BOOLEAN :
         /\ attach' = [attach EXCEPT !.handler = ok]
         /\ pc' = IF ok THEN "init_finish" ELSE "init_err"
    /\ UNCHANGED <<variant, pmvars>>

\* thunderbolt_power_init ending with acpi_enable_gpe.
P_init_finish_Arms ==
    /\ variant = "power"
    /\ pc = "init_finish"
    /\ attach' = [attach EXCEPT !.ops = TRUE, !.ref = TRUE, !.result = "ok"]
    /\ pc' = "idle"
    /\ armed' = TRUE
    /\ UNCHANGED <<variant, cb, ret, rpm, runtime_error, is_prepared, system_state,
                   d3cold_allowed, hw, port_state, saved, child_state,
                   child_req, dev_req, nhi_req, nhi_usage, i, powered_down, st>>

\* pci_walk_bus(..., disable_pme_poll, ...); power->pm_domain.ops = ...;
\* dev_pm_domain_set(upstream_dev, &power->pm_domain); tb->power = power; return;
P_init_finish ==
    /\ variant = "power"
    /\ pc = "init_finish"
    /\ attach' = [attach EXCEPT !.ops = TRUE, !.ref = TRUE, !.result = "ok"]
    /\ pc' = "idle"
    /\ UNCHANGED <<variant, pmvars>>

\* err_free: dev_err("controller will stay powered up permanently"); kfree(power);
P_init_err ==
    /\ variant = "power"
    /\ pc = "init_err"
    /\ attach' = [attach EXCEPT !.ctx = IF @ = "live" THEN "freed" ELSE @,
                                !.result = "failed"]
    /\ pc' = "failed"
    /\ UNCHANGED <<variant, pmvars>>

thunderbolt_power_init ==
    \/ P_init_alloc
    \/ P_init_set
    \/ P_init_get
    \/ P_init_gpe
    \/ P_init_install
    \/ P_init_finish
    \/ P_init_err

\* thunderbolt_power_fini freeing the context first.
P_fini_enter_FreeFirst ==
    /\ variant = "power"
    /\ pc \in {"idle", "failed"}
    /\ IF ~attach.ref
       THEN /\ pc' = "removed"
            /\ UNCHANGED attach
       ELSE /\ attach' = [attach EXCEPT !.ctx = "freed"]
            /\ pc' = "fini_handler"
    /\ UNCHANGED <<variant, pmvars>>

\* power = tb->power; if (!power) return;
\* tb->power = NULL; dev_pm_domain_set(upstream_dev, NULL);
P_fini_enter ==
    /\ variant = "power"
    /\ pc \in {"idle", "failed"}
    /\ IF ~attach.ref
       THEN /\ pc' = "removed"
            /\ UNCHANGED attach
       ELSE /\ attach' = [attach EXCEPT !.ref = FALSE, !.ops = FALSE]
            /\ pc' = "fini_handler"
    /\ UNCHANGED <<variant, pmvars>>

\* if (ACPI_FAILURE(acpi_remove_gpe_handler(NULL, power->wake_gpe, nhi_wake)))
\*         dev_err(nhi_dev, "cannot remove GPE handler\n");
P_fini_handler ==
    /\ variant = "power"
    /\ pc = "fini_handler"
    /\ \E ok \in BOOLEAN :
         attach' = [attach EXCEPT !.handler = IF ok THEN FALSE ELSE @,
                                  !.unhooked = TRUE]
    /\ pc' = "fini_free"
    /\ UNCHANGED <<variant, pmvars>>

\* kfree(power);
P_fini_free ==
    /\ variant = "power"
    /\ pc = "fini_free"
    /\ attach' = [attach EXCEPT !.ctx = "freed"]
    /\ pc' = "removed"
    /\ UNCHANGED <<variant, pmvars>>

thunderbolt_power_fini ==
    \/ P_fini_enter
    \/ P_fini_handler
    \/ P_fini_free

\* ------------------------------ upstream.c: upstream_probe / upstream_remove

\* "host controllers only": return -ENODEV; devm_kzalloc failing: return
\* -ENOMEM; dsb0, nhi or the ACPI handle not found: goto err
U_probe_alloc ==
    /\ variant = "upstream"
    /\ pc = "unbound"
    /\ \E r \in {"ok", "ENODEV", "ENOMEM", "err"} :
         /\ attach' = [attach EXCEPT
                         !.ctx = IF r \in {"ok", "err"} THEN "live" ELSE "none",
                         !.result = IF r \in {"ENODEV", "ENOMEM"} THEN "failed" ELSE @]
         /\ pc' = CASE r = "ok" -> "init_set"
                    [] r = "err" -> "init_err"
                    [] OTHER -> "failed"
    /\ UNCHANGED <<variant, pmvars>>

\* if (XRPE fails && TRPE fails) goto err;
U_probe_set ==
    /\ variant = "upstream"
    /\ pc = "init_set"
    /\ \E xrpe \in BOOLEAN, trpe \in BOOLEAN :
         /\ attach' = LookupSet(attach, xrpe, trpe)
         /\ pc' = IF xrpe \/ trpe THEN "init_get" ELSE "init_err"
    /\ UNCHANGED <<variant, pmvars>>

\* if (ACPI_FAILURE(acpi_get_handle(nhi_handle, "XRIL", &upstream->get_power)))
\*         goto err;
U_probe_get ==
    /\ variant = "upstream"
    /\ pc = "init_get"
    /\ \E ok \in BOOLEAN :
         /\ attach' = [attach EXCEPT !.tried = Append(@, "XRIL"), !.get = ok]
         /\ pc' = IF ok THEN "init_gpe" ELSE "init_err"
    /\ UNCHANGED <<variant, pmvars>>

\* if (ACPI_FAILURE(acpi_evaluate_integer(nhi_handle, "XRIN", NULL,
\*                                        &upstream->wake_gpe))) goto err;
U_probe_gpe ==
    /\ variant = "upstream"
    /\ pc = "init_gpe"
    /\ \E ok \in BOOLEAN :
         /\ attach' = [attach EXCEPT !.tried = Append(@, "XRIN"), !.gpe = ok]
         /\ pc' = IF ok THEN "init_install" ELSE "init_err"
    /\ UNCHANGED <<variant, pmvars>>

\* if (ACPI_FAILURE(acpi_install_gpe_handler(NULL, upstream->wake_gpe,
\*         ACPI_GPE_LEVEL_TRIGGERED, upstream_wake_nhi, upstream->nhi))) goto err;
U_probe_install ==
    /\ variant = "upstream"
    /\ pc = "init_install"
    /\ \E ok \in BOOLEAN :
         /\ attach' = [attach EXCEPT !.handler = ok]
         /\ pc' = IF ok THEN "init_finish" ELSE "init_err"
    /\ UNCHANGED <<variant, pmvars>>

\* set_service_data(dev, upstream); pci_walk_bus(..., pm_init_cb, NULL); return 0;
\* On 0 the driver core binds upstream_driver, whose callbacks now apply.
U_probe_finish ==
    /\ variant = "upstream"
    /\ pc = "init_finish"
    /\ attach' = [attach EXCEPT !.ref = TRUE, !.ops = TRUE, !.result = "ok"]
    /\ pc' = "idle"
    /\ UNCHANGED <<variant, pmvars>>

\* err: pci_dev_put(upstream->nhi); pci_dev_put(upstream->dsb0); return -ENODEV;
U_probe_err ==
    /\ variant = "upstream"
    /\ pc = "init_err"
    /\ attach' = [attach EXCEPT !.result = "failed"]
    /\ pc' = "init_unwind"
    /\ UNCHANGED <<variant, pmvars>>

\* The driver core after a failed probe and after remove: the device is left
\* without driver and its devm allocations (the context) are released.
U_devres_release ==
    /\ variant = "upstream"
    /\ pc \in {"init_unwind", "fini_free"}
    /\ attach' = [attach EXCEPT !.ops = FALSE, !.ctx = "freed"]
    /\ pc' = IF pc = "init_unwind" THEN "failed" ELSE "removed"
    /\ UNCHANGED <<variant, pmvars>>

upstream_probe ==
    \/ U_probe_alloc
    \/ U_probe_set
    \/ U_probe_get
    \/ U_probe_gpe
    \/ U_probe_install
    \/ U_probe_finish
    \/ U_probe_err

\* upstream = get_service_data(dev);
\* if (ACPI_FAILURE(acpi_remove_gpe_handler(NULL, upstream->wake_gpe,
\*         upstream_wake_nhi))) dev_err(...);
\* The driver core calls ->remove of a bound driver only.
U_remove_handler ==
    /\ variant = "upstream"
    /\ pc = "idle"
    /\ attach.ops
    /\ \E ok \in BOOLEAN :
         attach' = [attach EXCEPT !.handler = IF ok THEN FALSE ELSE @,
                                  !.unhooked = TRUE]
    /\ pc' = "fini_put"
    /\ UNCHANGED <<variant, pmvars>>

\* pci_dev_put(upstream->nhi); pci_dev_put(upstream->dsb0);
\* set_service_data(dev, NULL);
U_remove_clear ==
    /\ variant = "upstream"
    /\ pc = "fini_put"
    /\ attach' = [attach EXCEPT !.ref = FALSE]
    /\ pc' = "fini_free"
    /\ UNCHANGED <<variant, pmvars>>

upstream_remove ==
    \/ U_remove_handler
    \/ U_remove_clear

\* nhi_wake disabling the GPE it was raised by.
P_nhi_wake_DisablesGpe ==
    /\ variant = "power"
    /\ attach.handler
    /\ armed
    /\ nhi_req' = TRUE
    /\ armed' = FALSE
    /\ UNCHANGED <<variant, attach, pc, cb, ret, rpm, runtime_error, is_prepared,
                   system_state, d3cold_allowed, hw, port_state, saved,
                   child_state, child_req, dev_req, nhi_usage, i, powered_down, st>>

\* power.c nhi_wake: WARN_ON(pm_request_resume(nhi_dev) < 0);
P_nhi_wake ==
    /\ variant = "power"
    /\ attach.handler
    /\ armed
    /\ nhi_req' = TRUE
    /\ UNCHANGED <<variant, attach, pc, cb, ret, rpm, runtime_error, is_prepared,
                   system_state, d3cold_allowed, hw, armed, port_state, saved,
                   child_state, child_req, dev_req, nhi_usage, i, powered_down, st>>

\* upstream.c upstream_wake_nhi: WARN_ON(pm_request_resume(&nhi->dev) < 0);
U_upstream_wake_nhi ==
    /\ variant = "upstream"
    /\ attach.handler
    /\ armed
    /\ nhi_req' = TRUE
    /\ UNCHANGED <<variant, attach, pc, cb, ret, rpm, runtime_error, is_prepared,
                   system_state, d3cold_allowed, hw, armed, port_state, saved,
                   child_state, child_req, dev_req, nhi_usage, i, powered_down, st>>

\* ------------------------------------------------------------ environment

\* A pending resume request of a device that is active (or that carries a
\* runtime error) is dropped by the PM core: nothing is left to do.
pm_request_done ==
    /\ pc = "idle"
    /\ rpm = "active" \/ runtime_error # "none"
    /\ dev_req \/ nhi_req
    /\ dev_req' = FALSE
    /\ nhi_req' = FALSE
    /\ UNCHANGED <<variant, attach, pc, cb, ret, rpm, runtime_error, is_prepared,
                   system_state, d3cold_allowed, hw, armed, port_state, saved,
                   child_state, child_req, nhi_usage, i, powered_down, st>>

\* A child's requested runtime resume runs (its parent is active): it is
\* back in D0.
ChildResume(c) ==
    /\ pc = "idle"
    /\ rpm = "active"
    /\ child_req[c]
    /\ child_req' = [child_req EXCEPT ![c] = FALSE]
    /\ child_state' = [child_state EXCEPT ![c] = "D0"]
    /\ UNCHANGED <<variant, attach, pc, cb, ret, rpm, runtime_error, is_prepared,
                   system_state, d3cold_allowed, hw, armed, port_state, saved,
                   dev_req, nhi_req, nhi_usage, i, powered_down, st>>

\* An idle child runtime-suspends to D3hot.
ChildSuspend(c) ==
    /\ pc = "idle"
    /\ rpm = "active"
    /\ child_state[c] = "D0"
    /\ ~child_req[c]
    /\ child_state' = [child_state EXCEPT ![c] = "D3hot"]
    /\ UNCHANGED <<variant, attach, pc, cb, ret, rpm, runtime_error, is_prepared,
                   system_state, d3cold_allowed, hw, armed, port_state, saved,
                   child_req, dev_req, nhi_req, nhi_usage, i, powered_down, st>>

\* The system starts to halt.
Shutdown ==
    /\ pc = "idle"
    /\ system_state = "running"
    /\ system_state' = "halt"
    /\ UNCHANGED <<variant, attach, pc, cb, ret, rpm, runtime_error, is_prepared,
                   d3cold_allowed, hw, armed, port_state, saved, child_state,
                   child_req, dev_req, nhi_req, nhi_usage, i, powered_down, st>>

\* The d3cold_allowed attribute of the port is written through sysfs.
SetD3coldAllowed ==
    /\ pc = "idle"
    /\ d3cold_allowed' = ~d3cold_allowed
    /\ UNCHANGED <<variant, attach, pc, cb, ret, rpm, runtime_error, is_prepared,
                   system_state, hw, armed, port_state, saved, child_state,
                   child_req, dev_req, nhi_req, nhi_usage, i, powered_down, st>>

Next ==
    \/ thunderbolt_power_init
    \/ thunderbolt_power_fini
    \/ upstream_probe
    \/ upstream_remove
    \/ U_devres_release
    \/ P_upstream_prepare
    \/ P_upstream_complete
    \/ P_upstream_runtime_suspend
    \/ P_upstream_runtime_resume
    \/ P_nhi_wake
    \/ U_upstream_prepare
    \/ U_upstream_complete
    \/ U_upstream_runtime_suspend
    \/ U_upstream_runtime_resume
    \/ U_upstream_wake_nhi
    \/ pm_return
    \/ pm_request_done
    \/ \E c \in Children : ChildResume(c)
    \/ \E c \in Children : ChildSuspend(c)
    \/ Shutdown
    \/ SetD3coldAllowed

Spec == Init /\ [][Next]_vars

\* The callback thread runs on: a callback that was entered is carried to its
\* return (usleep_range returns, the ACPI calls return).
CallbackStep ==
    \/ P_upstream_prepare
    \/ P_upstream_complete
    \/ P_upstream_runtime_suspend
    \/ P_upstream_runtime_resume
    \/ U_upstream_prepare
    \/ U_upstream_complete
    \/ U_upstream_runtime_suspend
    \/ U_upstream_runtime_resume

\* Positions of attach and detach, and the ends they lead to.
LifecyclePcs == {"unbound", "init_set", "init_get", "init_gpe", "init_install",
                 "init_finish", "init_err", "init_unwind", "failed",
                 "fini_handler", "fini_put", "fini_free", "removed"}

\* A callback has been entered and the PM core has not yet taken its result.
InCallback == pc \notin LifecyclePcs \cup {"idle"}

Running == InCallback /\ pc # "ret"

FairSpec == Init /\ [][Next]_vars /\ WF_vars(Running /\ CallbackStep)

\* The PM core works through a pending resume request: the requested runtime
\* resume is eventually entered, a running callback is carried to its return
\* and its result is taken.
ResumeEntry == P_rr_disable \/ U_rr_enter

WakeSpec ==
    /\ Init /\ [][Next]_vars
    /\ WF_vars(Running /\ CallbackStep)
    /\ WF_vars(pm_return)
    /\ SF_vars((nhi_req \/ dev_req) /\ ResumeEntry)

\* ================================================================ claims

\* The callback `name` has returned and the PM core has not yet taken the result.
Returned(name) == pc = "ret" /\ cb = name

SuspendFailed == Returned("runtime_suspend") /\ ret # "OK"

\* The three failure points of the power-down sequence.
FailedAtPowerOff == Returned("runtime_suspend") /\ st.offRes = "fail"
FailedAtPollExhaustion ==
    Returned("runtime_suspend") /\ st.query = PollMax /\ powered_down = 0
FailedAtArm == Returned("runtime_suspend") /\ st.enableRes = "fail"

C2_FailedSuspendRolledBack ==
    /\ [](   (FailedAtPowerOff \/ FailedAtPollExhaustion \/ FailedAtArm)
          => /\ st.on = 1
             /\ port_state = "D0"
             /\ ~armed
             /\ \A c \in Children : child_req[c]
             /\ ret = "EAGAIN")
    /\ [][   (FailedAtPowerOff \/ FailedAtPollExhaustion \/ FailedAtArm)
          => (rpm' = "active" /\ runtime_error' = "none" /\ ~armed')]_vars

C2_Witness ==
    /\ FailedAtPollExhaustion
    /\ st.on = 1
    /\ \A c \in Children : child_req[c]

\* C3: whenever runtime suspend returns failure the controller is really
\* powered up, as the bookkeeping (device active) says.
C3_FailedSuspendLeavesPowerUp ==
    SuspendFailed => (hw = "up" /\ rpm = "active")

\* C4: the poll loop issues at most 300 queries and is always left; when no
\* query reported powered-down, runtime suspend rolls back (power-on reissued,
\* children requested to resume) and returns -EAGAIN.
C4_PollBounded ==
    /\ [](st.query <= PollMax)
    /\ []((pc = "rs_poll") => (i < PollMax /\ st.query = i))
    /\ []((Returned("runtime_suspend") /\ powered_down = 0)
            => /\ ret = "EAGAIN"
               /\ st.on = 1
               /\ st.enable = 0
               /\ \A c \in Children : child_req[c])
    /\ ((pc = "rs_poll") ~> (pc = "ret"))

C4_Witness ==
    /\ Returned("runtime_suspend")
    /\ st.query = PollMax
    /\ powered_down = 0
    /\ ret = "EAGAIN"

\* A runtime resume is under way, or has just returned, with the system halting.
ResumeInShutdown == cb = "runtime_resume" /\ InCallback /\ system_state = "halt"

EntersOnActive(name) ==
    pc = "idle" /\ InCallback' /\ cb' = name /\ rpm = "active"

\* C6: prepare and complete entered on a runtime-active device return at once:
\* no firmware call, no GPE enable or disable, no resume request, nothing of
\* the power state changed; the PM core then leaves the device active.
C6_ActivePrepareCompleteNoOp ==
    /\ [][   (EntersOnActive("prepare") \/ EntersOnActive("complete"))
          => /\ pc' = "ret"
             /\ st' = St0
             /\ ret' \in {"OK", "void"}
             /\ UNCHANGED <<hw, armed, dev_req, nhi_req, child_req, child_state,
                            port_state, nhi_usage, runtime_error, rpm>>]_vars
    /\ [][   (pc = "ret" /\ cb \in {"prepare", "complete"} /\ rpm = "active")
          => (rpm' = "active" /\ UNCHANGED <<hw, armed, runtime_error>>)]_vars

C6_Witness ==
    /\ Returned("complete")
    /\ rpm = "active"
    /\ st = St0
    /\ hw = "up"
    /\ ~armed

\* The power-down sequence went through without a failure, the query
\* reporting powered-down at attempt n.
SuspendWentThrough(n) ==
    /\ Returned("runtime_suspend")
    /\ st.offRes = "ok"
    /\ st.query = n
    /\ powered_down = 1
    /\ st.enableRes = "ok"

\* C7: power-off succeeds, the first query reports powered-down, the arm
\* succeeds: runtime suspend returns 0 with the GPE armed, the controller
\* powered down, no power-on call, every child marked D3cold and none asked to
\* resume; the PM core records the device as suspended.
C7_CleanSuspend ==
    /\ [](SuspendWentThrough(1)
            => /\ ret = "OK"
               /\ armed
               /\ hw = "down"
               /\ st.on = 0
               /\ st.walk = 0
               /\ \A c \in Children : child_state[c] = "D3cold" /\ ~child_req[c])
    /\ [][(SuspendWentThrough(1) /\ pc' = "idle")
            => (rpm' = "suspended" /\ runtime_error' = "none" /\ armed')]_vars

C7_Witness == SuspendWentThrough(1) /\ ret = "OK" /\ armed

\* C8: the loop gives up only after 300 queries and never issues a 301st; a
\* query that reports powered-down at attempt 300 leads to the arm and to
\* success.
C8_Attempt300Succeeds ==
    /\ (pc = "rs_check" /\ powered_down = 0) => st.query = PollMax
    /\ st.query <= PollMax
    /\ (pc \in {"rs_check", "rs_arm"} /\ st.query = PollMax /\ powered_down = 1)
          => (st.on = 0 /\ hw = "down")
    /\ SuspendWentThrough(PollMax) => (ret = "OK" /\ armed /\ st.on = 0)

C8_Witness == SuspendWentThrough(PollMax) /\ i = PollMax - 1 /\ ret = "OK"

\* C9: the arm fails after the query confirmed power-down: power-on is
\* reissued, every child is asked to resume, -EAGAIN is returned and the PM
\* core leaves the device active.
C9_ArmFailureRollsBack ==
    /\ [](FailedAtArm
            => /\ powered_down = 1
               /\ st.on = 1
               /\ port_state = "D0"
               /\ ~armed
               /\ \A c \in Children : child_req[c]
               /\ ret = "EAGAIN")
    /\ [][FailedAtArm => (rpm' = "active" /\ runtime_error' = "none")]_vars

C9_Witness == FailedAtArm /\ st.on = 1 /\ ret = "EAGAIN"

\* A step of runtime suspend that calls acpi_enable_gpe.
SuspendEnablesGpe == cb = "runtime_suspend" /\ st'.enable = st.enable + 1

\* C10: runtime suspend enables the wake GPE only when a query of this attempt
\* has reported powered-down and the controller is powered down.
C10_ArmOnlyAfterConfirmedDown ==
    [][SuspendEnablesGpe
         => (st.query >= 1 /\ powered_down = 1 /\ hw = "down" /\ st.on = 0)]_vars

C10_Witness ==
    /\ variant = "upstream"
    /\ Returned("runtime_suspend")
    /\ st.enable = 1
    /\ armed
    /\ hw = "down"

\* Runtime suspend is entered while the port's d3cold_allowed is clear.
SuspendEntersForbidden ==
    pc = "idle" /\ InCallback' /\ cb' = "runtime_suspend" /\ ~d3cold_allowed

\* What a refusal at entry leaves behind: -EAGAIN, no call made, no child
\* marked, no state saved, firmware and GPE untouched.
RefusedAtEntry ==
    /\ pc' = "ret"
    /\ ret' = "EAGAIN"
    /\ st' = St0
    /\ UNCHANGED <<hw, armed, saved, port_state, child_state, child_req,
                   dev_req, nhi_usage>>

ResumeDisablesGpe == cb' = "runtime_resume" /\ st'.disable = st.disable + 1
ResumePowersOn == cb = "runtime_resume" /\ st'.on = st.on + 1

\* A step that enters upstream_runtime_suspend.
EntersRuntimeSuspend == pc = "idle" /\ InCallback' /\ cb' = "runtime_suspend"

\* The consequence of a failed disable: the NHI's usage reference is taken,
\* never dropped, and runtime suspend is not entered while it is held.
FailedDisableEndsRuntimePm ==
    /\ [][(ResumeDisablesGpe /\ st'.disableRes = "fail") => nhi_usage']_vars
    /\ [][nhi_usage => nhi_usage']_vars
    /\ [][nhi_usage => ~EntersRuntimeSuspend]_vars

\* C12 (as stated): every power-on call of runtime resume comes after an
\* attempt to disable the wake GPE; a failed disable takes the usage
\* reference for good and runtime suspend is never entered again.
C12_DisableBeforePowerOn ==
    /\ [][ResumePowersOn => st.disable = 1]_vars
    /\ [][ResumeDisablesGpe => st.on = 0]_vars
    /\ FailedDisableEndsRuntimePm

\* C12 (amended): the disable is attempted before the power-on call, except
\* in power.c when the device is prepared for system sleep, where no disable
\* is attempted at all; the consequence of a failed disable is as stated.
C12_DisableBeforePowerOnUnlessPrepared ==
    /\ [][ResumePowersOn
            => st.disable = IF variant = "power" /\ is_prepared THEN 0 ELSE 1]_vars
    /\ [][ResumeDisablesGpe => st.on = 0]_vars
    /\ FailedDisableEndsRuntimePm

C12_Witness ==
    /\ cb = "runtime_resume"
    /\ st.disableRes = "fail"
    /\ st.on = 1
    /\ nhi_usage
    /\ armed

\* The power-on call of runtime resume has failed.
ResumePowerOnFailed == cb = "runtime_resume" /\ InCallback /\ st.onRes = "fail"

\* C13: a failed power-on call ends runtime resume with -ENODEV: the call is
\* made once, the generic runtime resume is not run (the failing step leaves
\* the port as it was), no child is asked to resume; the PM core records the error and leaves
\* the device suspended.
C13_PowerOnFailureIsHard ==
    /\ [](ResumePowerOnFailed
            => /\ pc = "ret"
               /\ ret = "ENODEV"
               /\ st.on = 1
               /\ st.busRes = "none"
               /\ st.walk = 0)
    /\ [][(pc = "rr_on" /\ st'.onRes = "fail")
            => UNCHANGED <<hw, port_state, saved, child_state, child_req>>]_vars
    /\ [][(ResumePowerOnFailed /\ pc' = "idle")
            => (rpm' = "suspended" /\ runtime_error' = "ENODEV"
                /\ UNCHANGED child_req)]_vars
    /\ [][runtime_error = "ENODEV"
            => ~(pc = "idle" /\ cb' = "runtime_resume" /\ InCallback')]_vars

C13_Witness ==
    /\ Returned("runtime_resume")
    /\ st.onRes = "fail"
    /\ ret = "ENODEV"
    /\ hw = "down"
    /\ \E c \in Children : ~child_req[c]

\* The power-on call of runtime resume has succeeded.
ResumePowerOnOk == cb = "runtime_resume" /\ InCallback /\ st.onRes = "ok"

\* C14: after a successful power-on call the generic runtime resume (power.c:
\* the bus callback; upstream.c: D0 and pci_restore_state) is the next step,
\* the walk that requests a resume of every child the one after it, and the
\* walk is made whatever the generic resume returned.
C14_GenericResumeThenChildren ==
    /\ [][(pc = "rr_on" /\ st'.onRes = "ok")
            => (pc' = "rr_bus" /\ UNCHANGED <<port_state, saved, child_req>>)]_vars
    /\ [][(pc = "rr_bus" /\ pc' # "rr_bus")
            => (pc' = "rr_walk" /\ port_state' = "D0" /\ ~saved'
                /\ UNCHANGED child_req)]_vars
    /\ [][(pc = "rr_walk" /\ pc' # "rr_walk")
            => (pc' = "ret" /\ st'.walk = 1 /\ \A c \in Children : child_req'[c])]_vars
    /\ [][(variant = "power" /\ pc = "rr_walk") => ret' = ret]_vars
    /\ []((ResumePowerOnOk /\ pc \in {"rr_bus", "rr_walk"}) => st.walk = 0)
    /\ []((ResumePowerOnOk /\ pc = "ret")
            => /\ st.walk = 1
               /\ port_state = "D0"
               /\ \A c \in Children : child_req[c]
               /\ (st.busRes = "fail" => ret \in BusErrs))

C14_Witness ==
    /\ variant = "power"
    /\ Returned("runtime_resume")
    /\ st.onRes = "ok"
    /\ st.busRes = "fail"
    /\ st.walk = 1
    /\ \A c \in Children : child_req[c]

\* prepare has returned from a runtime-suspended device with the disable failed.
PrepareDisableFailed ==
    Returned("prepare") /\ rpm = "suspended" /\ st.disableRes = "fail"

\* C15: prepare on a runtime-suspended device disables the wake GPE once; if
\* the disable fails it requests a resume of the device and returns -EAGAIN,
\* and the PM core does not take the device as prepared.
C15_PrepareFailureNotReady ==
    /\ []((Returned("prepare") /\ rpm = "suspended") => st.disable = 1)
    /\ [](PrepareDisableFailed
            => (dev_req /\ st.req = 1 /\ ret = "EAGAIN"))
    /\ [][(PrepareDisableFailed /\ pc' = "idle") => ~is_prepared']_vars

\* complete has returned from a device that is runtime-suspended.
CompletedOnSuspended == Returned("complete") /\ rpm = "suspended"

WakeHandlerStep == P_nhi_wake \/ U_upstream_wake_nhi

\* C17: at whatever position of a callback the wake handler runs, it posts a
\* resume request for the NHI and nothing else: the callback's position, its
\* locals and result, the record of its calls (no firmware call, no GPE
\* enable or disable), the power state and the PM core's bookkeeping are as
\* they were; no callback step writes the request the handler posts.
C17_WakeHandlerOnlyRequestsResume ==
    /\ [][WakeHandlerStep
            => /\ nhi_req'
               /\ UNCHANGED <<pc, cb, ret, st, i, powered_down, hw, armed,
                              port_state, saved, child_state, child_req, dev_req,
                              nhi_usage, rpm, runtime_error, is_prepared>>]_vars
    /\ [][CallbackStep => UNCHANGED nhi_req]_vars

C17_Witness ==
    /\ Running
    /\ armed
    /\ nhi_req
    /\ ~dev_req

\* Positions of attach (thunderbolt_power_init / upstream_probe).
AttachPcs == LifecyclePcs \ {"failed", "fini_handler", "fini_put", "fini_free",
                             "removed"}

\* Attach has ended in failure.
AttachAborted == attach.result = "failed" /\ pc \in {"failed", "removed"}

\* A step of attach in which a lookup, or the handler's installation, fails.
AttachStepFails ==
    \/ pc = "init_set" /\ attach'.set = "none"
    \/ pc = "init_get" /\ ~attach'.get
    \/ pc = "init_gpe" /\ ~attach'.gpe
    \/ pc = "init_install" /\ ~attach'.handler

\* C18: a failed lookup (XRPE and TRPE both, XRIL, XRIN) or a failed
\* installation of the wake handler takes attach to its error exit; after a
\* failed attach no callback set is installed, no wake handler is registered,
\* the context is gone and unreferenced (tb->power unset), no callback ever
\* runs and the controller stays powered up with the GPE disabled.
C18_FailedAttachAbortsAll ==
    /\ [][AttachStepFails => pc' = "init_err"]_vars
    /\ []((pc \in {"init_err", "init_unwind"})
            => (~attach.ops /\ ~attach.handler /\ ~attach.ref))
    /\ [][(pc = "init_err" /\ pc' # pc) => attach'.result = "failed"]_vars
    /\ [](AttachAborted
            => /\ ~attach.ops
               /\ ~attach.handler
               /\ ~attach.ref
               /\ attach.ctx \in {"none", "freed"}
               /\ cb = "none"
               /\ rpm = "active"
               /\ hw = "up"
               /\ ~armed)
    /\ [](attach.result = "ok"
            => (attach.set # "none" /\ attach.get /\ attach.gpe))
    /\ [][AttachAborted => AttachAborted']_vars

C18_Witness ==
    /\ AttachAborted
    /\ attach.gpe
    /\ ~attach.handler
    /\ attach.ctx = "freed"
    /\ hw = "up"

\* C19: attach makes no firmware power call and does not touch the GPE; a
\* successful attach leaves the wake handler and the callback set installed,
\* the controller powered up, the device runtime-active and the GPE disabled.
C19_AttachArmsNothing ==
    /\ [][(pc \in AttachPcs) => UNCHANGED <<hw, armed, rpm, st, runtime_error>>]_vars
    /\ [][(pc = "init_finish" /\ pc' # pc)
            => (pc' = "idle" /\ attach'.handler /\ attach'.ops /\ attach'.ref
                /\ attach'.result = "ok")]_vars
    /\ []((attach.result = "ok" /\ cb = "none")
            => (hw = "up" /\ ~armed /\ rpm = "active" /\ st = St0))

C19_Witness ==
    /\ pc = "idle"
    /\ cb = "none"
    /\ attach.result = "ok"
    /\ attach.handler
    /\ attach.ops
    /\ hw = "up"
    /\ ~armed
    /\ rpm = "active"

\* C20: the context of a successful attach is freed only after
\* acpi_remove_gpe_handler was called and the callback set and the pointer to
\* the context were taken away; a handler whose removal succeeded is gone;
\* detach after a failed attach changes nothing.
C20_DetachBeforeRelease ==
    /\ []((attach.ctx = "freed" /\ attach.result = "ok")
            => (attach.unhooked /\ ~attach.ops /\ ~attach.ref))
    /\ [][(attach.ctx = "live" /\ attach'.ctx = "freed" /\ attach.result = "ok")
            => (attach.unhooked /\ ~attach.ref
                /\ (variant = "power" => ~attach.ops))]_vars
    /\ [][(attach.handler /\ ~attach'.handler)
            => (attach.ctx = "live" /\ attach'.unhooked)]_vars
    /\ [][(pc = "failed" /\ pc' # pc)
            => (pc' = "removed" /\ UNCHANGED <<attach, pmvars>>)]_vars

C20_Witness ==
    /\ pc = "removed"
    /\ attach.result = "ok"
    /\ attach.ctx = "freed"
    /\ attach.unhooked
    /\ ~attach.handler
    /\ ~attach.ops
    /\ cb # "none"

\* C21: every failure that runtime suspend returns is -EAGAIN.
C21_SuspendFailsWithEagainOnly ==
    SuspendFailed => ret = "EAGAIN"

\* Positions of the rollback (err_resume in power.c, err in upstream.c).
RollbackPcs == {"rs_err", "rs_err_bus", "rs_err_walk"}

\* Runtime suspend has returned through its rollback.
RolledBack == Returned("runtime_suspend") /\ st.on >= 1

\* C22: the rollback of runtime suspend is, in this order, the power-on call,
\* the undo of the generic suspend (port back in D0), the resume request for
\* every child together with the return of -EAGAIN; the wake GPE is not
\* enabled at any of these steps nor at the return.
C22_RollbackOrder ==
    /\ [][(pc = "rs_err" /\ pc' # pc)
            => /\ st'.on = st.on + 1
               /\ pc' = "rs_err_bus"
               /\ UNCHANGED <<port_state, saved, child_req, child_state, ret>>]_vars
    /\ [][(pc = "rs_err_bus" /\ pc' # pc)
            => /\ port_state' = "D0"
               /\ pc' = "rs_err_walk"
               /\ st' = st
               /\ UNCHANGED <<hw, child_req, ret>>]_vars
    /\ [][(pc = "rs_err_walk" /\ pc' # pc)
            => /\ \A c \in Children : child_req'[c]
               /\ ret' = "EAGAIN"
               /\ pc' = "ret"
               /\ st'.on = st.on
               /\ UNCHANGED <<hw, port_state>>]_vars
    /\ []((pc \in RollbackPcs \/ RolledBack) => ~armed)
    /\ [](RolledBack
            => (st.on = 1 /\ port_state = "D0" /\ ret = "EAGAIN"
                /\ \A c \in Children : child_req[c]))

C22_Witness ==
    /\ RolledBack
    /\ st.enableRes = "fail"
    /\ port_state = "D0"
    /\ ret = "EAGAIN"
    /\ ~armed
    /\ \A c \in Children : child_req[c]

\* C23: after a failed runtime suspend, with the controller powered up, no
\* device below the port still carries the D3cold the attempt gave it.
C23_NoChildLeftInD3cold ==
    (SuspendFailed /\ hw = "up")
       => \A c \in Children : child_state[c] # "D3cold"

\* A step of runtime suspend that calls set(0).
SuspendPowersOff == cb = "runtime_suspend" /\ st'.off = st.off + 1

CallsEnableGpe == st'.enable = st.enable + 1
CallsDisableGpe == st'.disable = st.disable + 1

\* C25: the wake GPE is disabled only while it is enabled and enabled only
\* while it is disabled.
C25_EnableDisableAlternate ==
    /\ [][CallsDisableGpe => armed]_vars
    /\ [][CallsEnableGpe => ~armed]_vars

\* The runtime state "Suspended": suspended, powered down, GPE enabled.
SuspendedArmed ==
    rpm = "suspended" /\ runtime_error = "none" /\ hw = "down" /\ armed

\* Between a successful prepare and complete, no resume having run.
SuspendedPrepared ==
    rpm = "suspended" /\ runtime_error = "none" /\ hw = "down" /\ ~armed
    /\ is_prepared

\* prepare is entered from Suspended and its disable succeeds.
PrepareSucceeds ==
    /\ pc = "idle" /\ SuspendedArmed
    /\ InCallback' /\ cb' = "prepare" /\ st'.disableRes = "ok"

\* complete has returned, entered from SuspendedPrepared, every call succeeding.
CompleteSucceeded ==
    /\ Returned("complete")
    /\ rpm = "suspended"
    /\ st.offRes = "ok"
    /\ st.enableRes = "ok"

\* C26: prepare on a Suspended device, succeeding, makes no firmware call and
\* leaves it suspended and powered down with the GPE disabled; complete from
\* there, succeeding, makes one set(0) call and no set(1) call and leaves the
\* device suspended, powered down, without runtime error, the GPE enabled.
C26_PrepareCompleteRoundTrip ==
    /\ [][PrepareSucceeds
            => /\ pc' = "ret"
               /\ ret' \in {"OK", "DIRECT_COMPLETE"}
               /\ st'.off = 0 /\ st'.on = 0 /\ st'.query = 0 /\ st'.req = 0
               /\ ~armed'
               /\ UNCHANGED <<hw, rpm, runtime_error, dev_req>>]_vars
    /\ [][(Returned("prepare") /\ st.disableRes = "ok" /\ hw = "down"
           /\ runtime_error = "none" /\ pc' = "idle")
            => SuspendedPrepared']_vars
    /\ [][(pc = "idle" /\ SuspendedPrepared /\ InCallback' /\ cb' = "complete")
            => (pc' = "co_pulse" /\ st' = St0
                /\ UNCHANGED <<hw, armed, rpm, runtime_error>>)]_vars
    /\ [][(pc = "co_pulse" /\ hw = "down" /\ st'.offRes = "ok")
            => (hw' = "down" /\ st'.off = 1 /\ pc' = "co_arm"
                /\ UNCHANGED <<armed, rpm, runtime_error>>)]_vars
    /\ []((cb = "complete" /\ pc \in {"co_pulse", "co_arm"}) => st.on = 0)
    /\ []((CompleteSucceeded /\ hw = "down" /\ runtime_error = "none")
            => /\ st.off = 1
               /\ st.on = 0
               /\ st.query = 0
               /\ st.req = 0
               /\ armed)
    /\ [][(CompleteSucceeded /\ hw = "down" /\ runtime_error = "none"
           /\ pc' = "idle")
            => (SuspendedArmed' /\ ~is_prepared')]_vars

C26_Witness ==
    /\ CompleteSucceeded
    /\ hw = "down"
    /\ runtime_error = "none"
    /\ st.off = 1
    /\ st.on = 0
    /\ armed

\* The wake GPE has fired on a Suspended device: the NHI's resume is requested.
WakePending == pc = "idle" /\ SuspendedArmed /\ nhi_req

ActiveDisarmed == rpm = "active" /\ ~armed

\* The requested resume can no longer be run: the driver is detached, or a
\* runtime error is recorded on the device.
ResumeCannotRun == pc \in LifecyclePcs \/ runtime_error # "none"

\* A runtime resume in which the disable or the power-on call failed.
ResumeCallFailed ==
    cb = "runtime_resume" /\ InCallback
    /\ (st.disableRes = "fail" \/ st.onRes = "fail")

\* A runtime resume that the bus's runtime_resume failed, or that was refused
\* because the system is halting.
ResumeFailedOtherwise ==
    cb = "runtime_resume" /\ InCallback
    /\ (st.busRes = "fail" \/ ret = "ESHUTDOWN")

C28_CallCountsPerAttempt ==
    /\ [](cb = "runtime_suspend" => (st.off <= 1 /\ st.on <= 1))
    /\ [][(pc = "rs_poll" /\ st'.queryRes = "fail")
            => (pc' = "rs_err" /\ st'.on = 0)]_vars
    /\ []((cb = "runtime_suspend" /\ st.queryRes = "fail")
            => (pc \in RollbackPcs \cup {"ret"} /\ ret # "OK"))
    /\ [][(cb = "runtime_suspend" /\ st.queryRes = "fail" /\ InCallback')
            => st'.query = st.query]_vars
    /\ []((cb = "runtime_suspend" /\ pc \in {"rs_err_bus", "rs_err_walk"})
            => st.on = 1)
    /\ []((Returned("runtime_suspend")
           /\ (st.offRes = "fail" \/ st.queryRes = "fail" \/ powered_down = 0
               \/ st.enableRes = "fail"))
            => (st.on = 1 /\ ret = "EAGAIN"))
    /\ []((Returned("runtime_suspend") /\ ret = "OK")
            => (st.on = 0 /\ st.off = 1))

C28_Witness ==
    /\ Returned("runtime_suspend")
    /\ st.queryRes = "fail"
    /\ st.query = 2
    /\ st.off = 1
    /\ st.on = 1

\* The set(0) pulse of complete has failed.
PulseFailed == cb = "complete" /\ InCallback /\ st.offRes = "fail"

\* A step that enters a runtime PM callback.
EntersRuntimeCallback ==
    pc = "idle" /\ InCallback' /\ cb' \in {"runtime_suspend", "runtime_resume"}

\* C29: a failed pulse of complete records a runtime error on the device
\* (-EIO in power.c, -ENODEV in upstream.c) and requests no resume; the GPE
\* enable is the next step all the same; while the error stands the PM core
\* enters neither runtime suspend nor runtime resume.
C29_PulseFailureRecorded ==
    /\ [][(pc = "co_pulse" /\ st'.offRes = "fail")
            => /\ runtime_error' = IF variant = "power" THEN "EIO" ELSE "ENODEV"
               /\ pc' = "co_arm"
               /\ st'.req = 0
               /\ UNCHANGED <<dev_req, nhi_req, child_req, armed, hw>>]_vars
    /\ [](PulseFailed => runtime_error # "none")
    /\ []((PulseFailed /\ pc = "ret")
            => /\ st.enable = 1
               /\ st.enableRes = "ok" => (armed /\ st.req = 0)
               /\ st.enableRes = "fail" => st.req = 1)
    /\ [][(pc = "co_arm" /\ st.offRes = "fail" /\ st'.enableRes = "ok")
            => UNCHANGED dev_req]_vars
    /\ [][runtime_error # "none" => ~EntersRuntimeCallback]_vars

C29_Witness ==
    /\ PulseFailed
    /\ pc = "ret"
    /\ runtime_error \in {"EIO", "ENODEV"}
    /\ st.enableRes = "ok"
    /\ armed
    /\ ~dev_req

\* The two orders in which attach can have made its lookups.
OlderAliasFound == <<"XRPE", "XRIL", "XRIN">>
NewerAliasTried == <<"XRPE", "TRPE", "XRIL", "XRIN">>

IsPrefix(s, t) == Len(s) <= Len(t) /\ SubSeq(t, 1, Len(s)) = s

\* C30: XRPE is looked up first and TRPE only after XRPE failed; the set
\* method is unresolved only after both failed; XRIL and XRIN are each looked
\* up once, under that name only, and their failure ends attach.
C30_LookupOrder ==
    /\ [](IsPrefix(attach.tried, OlderAliasFound)
          \/ IsPrefix(attach.tried, NewerAliasTried))
    /\ [](attach.set = "XRPE" => IsPrefix(attach.tried, OlderAliasFound))
    /\ [](attach.set = "TRPE"
            => (Len(attach.tried) >= 2 /\ IsPrefix(attach.tried, NewerAliasTried)))
    /\ []((attach.set = "none" /\ attach.tried # <<>>)
            => (attach.tried = <<"XRPE", "TRPE">> /\ attach.result # "ok"))
    /\ [][(pc = "init_get" /\ pc' # pc)
            => (attach'.tried = Append(attach.tried, "XRIL")
                /\ (~attach'.get => pc' = "init_err"))]_vars
    /\ [][(pc = "init_gpe" /\ pc' # pc)
            => (attach'.tried = Append(attach.tried, "XRIN")
                /\ (~attach'.gpe => pc' = "init_err"))]_vars
    /\ [][(pc \notin {"init_set", "init_get", "init_gpe"})
            => attach'.tried = attach.tried]_vars

C30_Witness ==
    /\ attach.result = "ok"
    /\ attach.set = "TRPE"
    /\ attach.tried = NewerAliasTried
    /\ pc = "idle"

====
